---------------------------- MODULE Spec2Model ----------------------------
(***************************************************************************)
(* A model of satpass: pass detection (pass_predictor.py), the shadow test *)
(* (eclipse.py) and the per-pass eclipse classification and the            *)
(* per-satellite loop (main.py).                                           *)
(*                                                                         *)
(* Units.  Timestamps are whole seconds relative to the window start;      *)
(* timedelta(seconds=x) is rounded to that resolution the way datetime     *)
(* rounds it to a microsecond (half to even).  Lengths are whole           *)
(* kilometres, angles whole degrees.                                       *)
(*                                                                         *)
(* The propagator is an external capability.  It is modelled as a fixed    *)
(* but unknown function of the query: the answer to a query is chosen the  *)
(* first time the query is made and remembered (evMemo, posMemo), so that  *)
(* a repeated query is answered identically.                               *)
(***************************************************************************)
EXTENDS Integers, Sequences, FiniteSets, TLC

\* ---------------------------------------------------------------- bounds
\* The window is [0, end_time] with end_time at most MaxSlots minutes.
MaxSlots == 2
\* Satellites handled by one run of main.
MaxSats == 2
\* Longest pass, in seconds, given to the sample-series operators on their own.
MaxDuration == 480

\* ------------------------------------------------------ program constants
SampleIntervalS == 60
NumSamples == 50
MinSamples == 5
EarthRadiusKm == 6371
SunDistanceKm == 149600000
SemiMajorAxisKm == 6378
DefaultMinElevationDeg == 0
NoElevationDeg == -90
ZenithDeg == 90

\* ---------------------------------------------------------------- helpers
Abs(x) == IF x < 0 THEN -x ELSE x
Sgn(x) == IF x < 0 THEN -1 ELSE IF x > 0 THEN 1 ELSE 0
Max2(a, b) == IF a >= b THEN a ELSE b
Min2(a, b) == IF a <= b THEN a ELSE b

\* The search of the square root of a[1] between a[2] and a[3], by halving.
ISqrtFrom[a \in Nat \X Nat \X Nat] ==
    IF a[2] >= a[3] THEN a[2]
    ELSE IF ((a[2] + a[3] + 1) \div 2) * ((a[2] + a[3] + 1) \div 2) <= a[1]
         THEN ISqrtFrom[<<a[1], (a[2] + a[3] + 1) \div 2, a[3]>>]
         ELSE ISqrtFrom[<<a[1], a[2], (a[2] + a[3] + 1) \div 2 - 1>>]

\* math.sqrt, to the whole unit below (arguments below 2^31).
ISqrt(n) == ISqrtFrom[<<n, 0, 46340>>]

Dot(u, v) == u[1] * v[1] + u[2] * v[2] + u[3] * v[3]
Sub(u, v) == <<u[1] - v[1], u[2] - v[2], u[3] - v[3]>>
Scale(u, k) == <<u[1] * k, u[2] * k, u[3] * k>>

OnAxis(v) == Cardinality({i \in 1..3 : v[i] # 0}) <= 1

\* sqrt(x^2 + y^2 + z^2); a vector on a coordinate axis has the magnitude of its
\* one component, which keeps the Sun's distance within the integers' range.
Magnitude(v) == IF OnAxis(v) THEN Abs(v[1]) + Abs(v[2]) + Abs(v[3]) ELSE ISqrt(Dot(v, v))

\* v / |v| for a vector on a coordinate axis (exact in integers).
AxisUnit(v) == <<Sgn(v[1]), Sgn(v[2]), Sgn(v[3])>>

\* 1000 * sin(d degrees), d = 0..90.
SinMilli ==
    <<0, 17, 35, 52, 70, 87, 105, 122, 139, 156, 174, 191, 208,
      225, 242, 259, 276, 292, 309, 326, 342, 358, 375, 391, 407, 423,
      438, 454, 469, 485, 500, 515, 530, 545, 559, 574, 588, 602, 616,
      629, 643, 656, 669, 682, 695, 707, 719, 731, 743, 755, 766, 777,
      788, 799, 809, 819, 829, 839, 848, 857, 866, 875, 883, 891, 899,
      906, 914, 921, 927, 934, 940, 946, 951, 956, 961, 966, 970, 974,
      978, 982, 985, 988, 990, 993, 995, 996, 998, 999, 999, 1000, 1000>>

\* math.degrees(math.asin(m / 1000)), to the whole degree towards zero.
AsinDeg(m) == Sgn(m) * Cardinality({k \in 1..90 : SinMilli[k + 1] <= Abs(m)})

\* ------------------------------------------------------------ eclipse.py
\* Tangent of the angle between the object and the anti-illuminator direction, in
\* thousandths: the angle itself, in milliradians, for the small angles the cone
\* test is about.  proj is the (negative) projection on the illuminator axis.
AngleMilli(perp2, proj) == (1000 * ISqrt(perp2)) \div Abs(proj)

\* asin(earth_radius_km / sun_distance), in milliradians, for an illuminator far
\* from Earth (the inputs keep it beyond 100 Earth radii).
ShadowHalfAngleMilli(earth_radius_km, sun_distance) ==
    (1000 * earth_radius_km) \div sun_distance

\* The 0.01 rad margin of the coarse cone test, in milliradians.
ConeMarginMilli == 10

\* is_in_eclipse with the sunlit-side test of line 50 reading == in place of >=.
is_in_eclipse_no_sunlit_return(sat, sun, earth_radius_km) ==
    LET sun_distance == Magnitude(sun)
        sun_unit == AxisUnit(sun)
        projection_length == Dot(sat, sun_unit)
        perp_vector == Sub(sat, Scale(sun_unit, projection_length))
        perp2 == Dot(perp_vector, perp_vector)
        shadow_radius_at_projection ==
            earth_radius_km - (earth_radius_km * Abs(projection_length)) \div sun_distance
    IN IF Dot(sat, sat) < earth_radius_km * earth_radius_km THEN TRUE
       ELSE IF projection_length = 0 THEN FALSE
       ELSE IF AngleMilli(perp2, projection_length)
                 < ShadowHalfAngleMilli(earth_radius_km, sun_distance) + ConeMarginMilli
            THEN TRUE
       ELSE /\ projection_length < 0
            /\ Abs(projection_length) > earth_radius_km
            /\ shadow_radius_at_projection > 0
            /\ perp2 < shadow_radius_at_projection * shadow_radius_at_projection

\* is_in_eclipse(satellite_position, sun_position, earth_radius_km).  The Sun is on
\* a coordinate axis and not at the origin.  sat_distance < r is decided on the
\* squares; dot_product has the sign of sat . sun_unit, which is also
\* projection_length = dot_product * sat_distance.
is_in_eclipse(sat, sun, earth_radius_km) ==
    LET sat_d2 == Dot(sat, sat)
        sun_distance == Magnitude(sun)
        sun_unit == AxisUnit(sun)
        projection_length == Dot(sat, sun_unit)
        perp_vector == Sub(sat, Scale(sun_unit, projection_length))
        perp2 == Dot(perp_vector, perp_vector)
        shadow_radius_at_projection ==
            earth_radius_km - (earth_radius_km * Abs(projection_length)) \div sun_distance
    IN IF sat_d2 < earth_radius_km * earth_radius_km THEN TRUE
       ELSE IF projection_length >= 0 THEN FALSE
       ELSE IF AngleMilli(perp2, projection_length)
                 < ShadowHalfAngleMilli(earth_radius_km, sun_distance) + ConeMarginMilli
            THEN TRUE
       ELSE IF /\ projection_length < 0
               /\ Abs(projection_length) > earth_radius_km
               /\ shadow_radius_at_projection > 0
               /\ perp2 < shadow_radius_at_projection * shadow_radius_at_projection
            THEN TRUE
       ELSE FALSE

\* ------------------------------------------------------ pass_predictor.py
\* The observer of the runs: Location("Observer", lat, lon, elevation), on the
\* equator (the model evaluates cos and sin at multiples of 90 degrees only).
Observer == [latitude_deg |-> 0, longitude_deg |-> 0, elevation_m |-> 0]

CosDeg(d) == CASE d % 360 = 0 -> 1 [] d % 360 = 180 -> -1 [] OTHER -> 0
SinDeg(d) == CASE d % 360 = 90 -> 1 [] d % 360 = 270 -> -1 [] OTHER -> 0

\* The observer's ECEF coordinates (lines 210-225 and 287-296) at latitude 0, where
\* N = a / sqrt(1 - e2 * 0) = a.
ObserverECEF(loc) ==
    LET observer_alt_km == loc.elevation_m \div 1000
        N == SemiMajorAxisKm
    IN <<(N + observer_alt_km) * CosDeg(loc.latitude_deg) * CosDeg(loc.longitude_deg),
         (N + observer_alt_km) * CosDeg(loc.latitude_deg) * SinDeg(loc.longitude_deg),
         (N + observer_alt_km) * SinDeg(loc.latitude_deg)>>

Clamp(x, lo, hi) == Max2(lo, Min2(hi, x))

\* An elevation that tests the observer vector before the line of sight.
calculate_elevation_observer_first(satellite_position_km, loc) ==
    LET obs == ObserverECEF(loc)
        d == Sub(satellite_position_km, obs)
        distance == ISqrt(Dot(d, d))
        obs_mag == Magnitude(obs)
        obs_unit == AxisUnit(obs)
        cos_angle == (1000 * Dot(d, obs_unit)) \div distance
    IN IF obs_mag = 0 THEN 0
       ELSE IF Dot(d, d) = 0 THEN ZenithDeg
       ELSE AsinDeg(Clamp(cos_angle, -1000, 1000))

\* calculate_elevation(satellite_position_km, lat, lon, elevation_m): whole degrees.
calculate_elevation(satellite_position_km, loc) ==
    LET obs == ObserverECEF(loc)
        d == Sub(satellite_position_km, obs)
        distance == ISqrt(Dot(d, d))
        obs_mag == Magnitude(obs)
        obs_unit == AxisUnit(obs)
        cos_angle == (1000 * Dot(d, obs_unit)) \div distance
    IN IF Dot(d, d) = 0 THEN ZenithDeg
       ELSE IF obs_mag = 0 THEN 0
       ELSE AsinDeg(Clamp(cos_angle, -1000, 1000))

\* calculate_elevation_from_ecef(satellite_position_ecef, lat, lon, elevation_m).
calculate_elevation_from_ecef(satellite_position_ecef, loc) ==
    LET obs == ObserverECEF(loc)
        d == Sub(satellite_position_ecef, obs)
        distance == ISqrt(Dot(d, d))
        obs_mag == Magnitude(obs)
        obs_unit == AxisUnit(obs)
        cos_zenith == Dot(<<(1000 * d[1]) \div distance, (1000 * d[2]) \div distance,
                            (1000 * d[3]) \div distance>>, obs_unit)
    IN IF Dot(d, d) = 0 THEN ZenithDeg
       ELSE IF obs_mag = 0 THEN 0
       ELSE AsinDeg(Clamp(cos_zenith, -1000, 1000))

\* timedelta(seconds = num / den) for num >= 0: rounded half to even.
TimedeltaSeconds(num, den) ==
    LET q == num \div den
        r == num % den
    IN IF 2 * r < den THEN q
       ELSE IF 2 * r > den THEN q + 1
       ELSE IF q % 2 = 0 THEN q ELSE q + 1

\* The minute a timestamp falls in: the propagator's position is taken constant
\* over each minute of the window.
Slot(t) == t \div SampleIntervalS

\* ---------------------------------------------------------- the propagator
Vec0 == <<0, 0, 0>>

\* predictor.get_position(t): raises, or a position with position_km and, when
\* has_ecef, position_ecef (the two frames taken aligned, as the code takes them).
PositionOf(km, has_ecef) ==
    [raises |-> FALSE, position_km |-> km, has_ecef |-> has_ecef,
     position_ecef |-> IF has_ecef THEN km ELSE Vec0]
PositionRaises ==
    [raises |-> TRUE, position_km |-> Vec0, has_ecef |-> FALSE, position_ecef |-> Vec0]

\* The query raises; below the horizon (-42 degrees, with ECEF coordinates); on
\* the horizon (0 degrees, without them).
PositionAnswers ==
    {PositionRaises, PositionOf(<<0, 7000, 0>>, TRUE), PositionOf(<<6378, 7000, 0>>, FALSE)}

ErrorKinds == {"limit", "other"}

\* predictor.get_next_pass(...): StopIteration, an error whose message holds
\* "limit" or "propagation" (kind "limit") or does not (kind "other"), or an event.
SignalAnswer(kind) ==
    [kind |-> kind, aos |-> 0, los |-> 0, has_peak |-> FALSE,
     max_elevation_date |-> 0, max_elevation_deg |-> 0]
EventAnswer(aos, los, has_peak, deg) ==
    [kind |-> "event", aos |-> aos, los |-> los, has_peak |-> has_peak,
     max_elevation_date |-> IF has_peak THEN aos + (los - aos) \div 2 ELSE 0,
     max_elevation_deg |-> IF has_peak THEN deg ELSE 0]

EventTimes == {SampleIntervalS * k : k \in -1..(MaxSlots + 1)}

\* What the propagator may answer to get_next_pass(when_utc = when): the next pass
\* ends at or after `when`; it began before `when` only when it is in progress at
\* the first query of a run (later queries start one second after a pass has set,
\* and a satellite's passes do not overlap); its maximum elevation exceeds
\* max_elevation_gt.
NextPassAnswers(when, first_when, max_elevation_gt) ==
    {SignalAnswer(k) : k \in {"StopIteration"} \cup ErrorKinds}
    \cup {EventAnswer(pr[1], pr[2], hp, max_elevation_gt + 45) :
            pr \in {x \in EventTimes \X EventTimes :
                      /\ x[1] <= x[2]
                      /\ x[2] >= when
                      /\ (x[1] >= when \/ when = first_when)},
            hp \in BOOLEAN}

\* The propagators compute_passes is run on.  "next": get_next_pass answers the next
\* pass after when_utc, as above.  "stale": get_next_pass never fails, supplies the
\* peak of every pass, and may also answer, again, a pass of the window's leading
\* edge that set in the second before when_utc.  "high": get_position may also
\* answer a position at the observer's zenith.
PropagatorKinds == {"next", "stale", "high"}

\* An event that rose before first_when and set one second before `when`.
StaleAnswers(when, first_when, max_elevation_gt) ==
    {EventAnswer(aos, when - 1, TRUE, max_elevation_gt + 45) :
        aos \in {x \in EventTimes : x < first_when /\ x <= when - 1 /\ when - 1 \in EventTimes}}

\* predictor.get_next_pass(location, when_utc = when, ...) of a propagator of a kind.
GetNextPassAnswers(kind, when, first_when, max_elevation_gt) ==
    IF kind = "stale"
    THEN {a \in NextPassAnswers(when, first_when, max_elevation_gt) :
             a.kind = "StopIteration" \/ (a.kind = "event" /\ a.has_peak)}
         \cup StaleAnswers(when, first_when, max_elevation_gt)
    ELSE NextPassAnswers(when, first_when, max_elevation_gt)

\* predictor.get_position(t) of a propagator of a kind.
GetPositionAnswers(kind) ==
    PositionAnswers \cup (IF kind = "high" THEN {PositionOf(<<7000, 0, 0>>, TRUE)} ELSE {})

\* -------------------------------------------------------------- the state
VARIABLES
    start_time, end_time, min_elevation_deg,   \* the arguments of compute_passes
    evMemo, posMemo,                           \* the propagator's answers so far
    pc,                                        \* "search", "sample" or "done"
    passes, current_time,                      \* the locals of compute_passes
    smp,                                       \* the locals of compute_passes_by_sampling
    ended_by,                                  \* what ended the event search
    exc,                                       \* the exception leaving compute_passes
    run, first_result,                         \* the run's number, the first run's list
    retries,                                   \* lines 77-80 taken so far, modulo 2
    datetime_max,                              \* the last second a datetime can hold
    fallback,                                  \* "none", or how the scan called at lines 119/129 ended
    propagator,                                \* the propagator's kind (see PropagatorKinds)
    satellite_position, sun_position,          \* the arguments of is_in_eclipse
    ecl_pc, ecl_result,                        \* "call" or "returned", the value returned
    routine, pass_info,                        \* the classifier called, and on which pass
    sample_times,                              \* the sample series (pass_times)
    cls_pc,                                    \* "build", "classify" or "returned"
    cls_i,                                     \* the samples classified so far
    cls_result,                                \* "none", "true", "false" or "raised"
    cls_raised, cls_verdicts,                  \* how many samples raised, gave a verdict
    cls_eclipsed,                              \* how many samples is_in_eclipse found eclipsed
    tles, sat_i,                               \* main: the satellites, the one at hand
    main_pc,                                   \* "create", "detect", "classify", "sort", "done"
    sat_passes, pass_i,                        \* main: passes of the satellite, the one at hand
    all_passes,                                \* main: the output list
    entered, failed,                           \* main: satellites whose turn began, failed
    collected,                                 \* main: the rows appended so far
    peak_rise, peak_set, peak_positions,       \* the arguments of find_peak_elevation
    peak_pc, peak_result,                      \* "call" or "returned", the pair returned
    elev_function, elev_position,              \* the elevation function called, on what
    elev_location,
    elev_pc, elev_result                       \* "call" or "returned", the value returned

detVars == <<start_time, end_time, min_elevation_deg, evMemo, posMemo, pc, passes,
             current_time, smp, ended_by, exc, run, first_result, retries, propagator,
             datetime_max, fallback>>
eclVars == <<satellite_position, sun_position, ecl_pc, ecl_result>>
clsVars == <<routine, pass_info, sample_times, cls_pc, cls_i, cls_result, cls_raised,
             cls_verdicts, cls_eclipsed>>
mainVars == <<tles, sat_i, main_pc, sat_passes, pass_i, all_passes, entered, failed,
              collected>>

peakVars == <<peak_rise, peak_set, peak_positions, peak_pc, peak_result>>
elevVars == <<elev_function, elev_position, elev_location, elev_pc, elev_result>>

vars == <<detVars, eclVars, clsVars, mainVars, peakVars, elevVars>>

\* pass_start = None
NoTime == -1

PassInfo(rise_time, peak_time, set_time, max_elevation) ==
    [rise_time |-> rise_time, peak_time |-> peak_time, set_time |-> set_time,
     max_elevation |-> max_elevation]

\* ------------------------------------------------------ find_peak_elevation
FindPeakTime(rise_time, duration, i, num_samples) ==
    rise_time + TimedeltaSeconds(duration * i, num_samples - 1)

\* The minutes find_peak_elevation queries the propagator in.
FindPeakSlots(rise_time, set_time, num_samples) ==
    {Slot(FindPeakTime(rise_time, set_time - rise_time, i, num_samples)) :
        i \in 0..(num_samples - 1)}

\* Lines 168-176 for a sample in minute s: the query raises, or an elevation.
FindPeakQuery(pm, loc, s) ==
    [raises |-> pm[s].raises,
     elevation |-> IF pm[s].raises THEN 0 ELSE calculate_elevation(pm[s].position_km, loc)]

\* Lines 166-183: one sample of the scan; acc is (peak_time, max_elevation).
find_peak_sample(acc, sample_time, query) ==
    IF query.raises THEN acc
    ELSE IF query.elevation > acc.max_elevation
    THEN [peak_time |-> sample_time, max_elevation |-> query.elevation]
    ELSE acc

\* The loop of lines 162-183 from sample i on; of[s] is the query's outcome in
\* minute s.  (The singleton sets here and below bind a loop's state to its value,
\* so that the next turn does not compute it again at each use.)
RECURSIVE find_peak_loop(_, _, _, _, _, _)
find_peak_loop(acc, i, of, rise_time, duration, num_samples) ==
    IF i >= num_samples THEN acc
    ELSE CHOOSE result \in
             {find_peak_loop(next, i + 1, of, rise_time, duration, num_samples) :
                 next \in {find_peak_sample(
                               acc, FindPeakTime(rise_time, duration, i, num_samples),
                               of[Slot(FindPeakTime(rise_time, duration, i, num_samples))])}} :
             TRUE

\* find_peak_elevation(predictor, location, rise_time, set_time, num_samples).
find_peak_elevation(pm, loc, rise_time, set_time, num_samples) ==
    CHOOSE result \in
        {find_peak_loop([peak_time |-> rise_time, max_elevation |-> NoElevationDeg],
                        0, of, rise_time, set_time - rise_time, num_samples) :
            of \in {[s \in FindPeakSlots(rise_time, set_time, num_samples) |->
                       FindPeakQuery(pm, loc, s)]}} :
        TRUE

\* ----------------------------------------------- compute_passes_by_sampling
SamplingLocals(start) ==
    [current_time |-> start, passes |-> <<>>, in_pass |-> FALSE, pass_start |-> NoTime,
     pass_elevations |-> <<>>, pass_times |-> <<>>]

MaxOf(seq) == CHOOSE m \in {seq[i] : i \in 1..Len(seq)} : \A i \in 1..Len(seq) : seq[i] <= m
\* list.index(v): the first place of v.
IndexOf(seq, v) == CHOOSE i \in 1..Len(seq) : seq[i] = v /\ \A j \in 1..(i - 1) : seq[j] # v

\* A record whose peak is the last sample that reached the maximum.
ClosePassLastPeak(st, set_time) ==
    LET max_idx == CHOOSE i \in 1..Len(st.pass_elevations) :
                       /\ st.pass_elevations[i] = MaxOf(st.pass_elevations)
                       /\ \A j \in (i + 1)..Len(st.pass_elevations) :
                              st.pass_elevations[j] # MaxOf(st.pass_elevations)
    IN PassInfo(st.pass_start, st.pass_times[max_idx], set_time, st.pass_elevations[max_idx])

\* A record set at the time of the last recorded sample, whatever set_time is.
ClosePassAtLastRecorded(st, set_time) ==
    LET max_idx == IndexOf(st.pass_elevations, MaxOf(st.pass_elevations))
    IN PassInfo(st.pass_start, st.pass_times[max_idx], st.pass_times[Len(st.pass_times)],
                st.pass_elevations[max_idx])

\* A record set two intervals after set_time.
ClosePassSetsLate(st, set_time) ==
    LET max_idx == IndexOf(st.pass_elevations, MaxOf(st.pass_elevations))
    IN PassInfo(st.pass_start, st.pass_times[max_idx], set_time + 2 * SampleIntervalS,
                st.pass_elevations[max_idx])

\* Lines 400-412 and 426-437: the record of the open pass, set at set_time.
ClosePass(st, set_time) ==
    LET max_idx == IndexOf(st.pass_elevations, MaxOf(st.pass_elevations))
    IN PassInfo(st.pass_start, st.pass_times[max_idx], set_time, st.pass_elevations[max_idx])

SampleElevation(ans, loc) ==
    IF ans.has_ecef THEN calculate_elevation_from_ecef(ans.position_ecef, loc)
    ELSE calculate_elevation(ans.position_km, loc)

\* A turn of the loop that takes a raising sample for one below the threshold.
sampling_body_raise_is_below(st, ans, loc, min_deg) ==
    LET tried ==
            IF ~ans.raises /\ SampleElevation(ans, loc) >= min_deg
            THEN IF ~st.in_pass
                 THEN [st EXCEPT !.in_pass = TRUE, !.pass_start = st.current_time,
                                 !.pass_elevations = <<SampleElevation(ans, loc)>>,
                                 !.pass_times = <<st.current_time>>]
                 ELSE [st EXCEPT !.pass_elevations = Append(@, SampleElevation(ans, loc)),
                                 !.pass_times = Append(@, st.current_time)]
            ELSE IF st.in_pass
                 THEN [st EXCEPT !.in_pass = FALSE,
                                 !.passes = Append(@, ClosePass(st, st.current_time - SampleIntervalS)),
                                 !.pass_start = NoTime, !.pass_elevations = <<>>,
                                 !.pass_times = <<>>]
                 ELSE st
    IN [tried EXCEPT !.current_time = @ + SampleIntervalS]

\* One turn of the loop of lines 364-422 on the answer to get_position(current_time).
sampling_body(st, ans, loc, min_deg) ==
    LET tried ==
            IF ans.raises THEN st
            ELSE IF SampleElevation(ans, loc) >= min_deg
            THEN IF ~st.in_pass
                 THEN [st EXCEPT !.in_pass = TRUE, !.pass_start = st.current_time,
                                 !.pass_elevations = <<SampleElevation(ans, loc)>>,
                                 !.pass_times = <<st.current_time>>]
                 ELSE [st EXCEPT !.pass_elevations = Append(@, SampleElevation(ans, loc)),
                                 !.pass_times = Append(@, st.current_time)]
            ELSE IF st.in_pass
                 THEN [st EXCEPT !.in_pass = FALSE,
                                 !.passes = IF st.pass_start # NoTime /\ Len(st.pass_elevations) > 0
                                            THEN Append(@, ClosePass(st, st.current_time - SampleIntervalS))
                                            ELSE @,
                                 !.pass_start = NoTime, !.pass_elevations = <<>>,
                                 !.pass_times = <<>>]
                 ELSE st
    IN [tried EXCEPT !.current_time = @ + SampleIntervalS]

\* A return that forgets the pass still open.
sampling_tail_drops_open_pass(st, end) == st.passes

\* Lines 424-440: the pass still open at the end of the scan, and the return value.
sampling_tail(st, end) ==
    IF st.in_pass /\ st.pass_start # NoTime /\ Len(st.pass_elevations) > 0
    THEN Append(st.passes, ClosePass(st, end))
    ELSE st.passes

RECURSIVE sampling_loop(_, _, _, _, _)
sampling_loop(st, pm, loc, end, min_deg) ==
    IF st.current_time <= end
    THEN CHOOSE result \in
             {sampling_loop(next, pm, loc, end, min_deg) :
                 next \in {sampling_body(st, pm[Slot(st.current_time)], loc, min_deg)}} :
             TRUE
    ELSE st

\* compute_passes_by_sampling as one call, on the propagator's answers pm.
compute_passes_by_sampling(pm, loc, start, end, min_deg) ==
    sampling_tail(sampling_loop(SamplingLocals(start), pm, loc, end, min_deg), end)

\* The minutes the sampling scan queries the propagator in.
SamplingSlots(start, end) == {Slot(t) : t \in {x \in start..end : (x - start) % SampleIntervalS = 0}}

\* ------------------------------------------------------------ compute_passes
\* A run that starts with the list the previous run has left.
EntryPassesKeepsPrevious(previous) == previous

\* Line 57: the list a run starts with; `previous` is the last run's list.
EntryPasses(previous) == <<>>

\* The record put at the head of the list.
PrependPass(list, record) == <<record>> \o list

\* Line 105.
AppendPass(list, record) == Append(list, record)

\* A cursor left on the set time itself.
CursorAtSet(set_time) == set_time

\* Lines 79 and 108: the cursor after a pass that sets at set_time.
CursorAfter(set_time) == set_time + 1

\* A handler whose second branch keeps the passes accepted so far and breaks.
SearchErrorHandlerKeepsPartial(kind) == IF kind = "limit" THEN "sampling" ELSE "break"

\* A handler whose second branch raises the error again.
SearchErrorHandlerRaises(kind) == IF kind = "limit" THEN "sampling" ELSE "raise"

\* Lines 113-135: what the handler of `except Exception` does with an error of
\* get_next_pass whose message is of the given kind.  Both branches call
\* compute_passes_by_sampling and break.
SearchErrorHandler(kind) == IF kind = "limit" THEN "sampling" ELSE "sampling"

\* Lines 86-95: the peak of an accepted event.
EventPeak(ans, pm, loc) ==
    IF ans.has_peak
    THEN [peak_time |-> ans.max_elevation_date, max_elevation |-> ans.max_elevation_deg]
    ELSE find_peak_elevation(pm, loc, ans.aos, ans.los, NumSamples)

\* Lines 82-104.
EventPass(ans, pm, loc) ==
    LET peak == EventPeak(ans, pm, loc)
    IN PassInfo(ans.aos, peak.peak_time, ans.los, peak.max_elevation)

\* The minutes whose position the body of the search loop asks for.
EventSlots(ans, start, end) ==
    IF ans.kind = "event" /\ ~(ans.aos > end) /\ ~(ans.aos < start) /\ ~ans.has_peak
    THEN FindPeakSlots(ans.aos, ans.los, NumSamples)
    ELSE {}

Memo(memo, key, val) == IF key \in DOMAIN memo THEN memo ELSE (key :> val) @@ memo

\* One turn of the loop of lines 62-135: the call of get_next_pass and what follows.
EventSearch ==
    /\ pc = "search"
    /\ current_time < end_time
    /\ \E ans \in IF current_time \in DOMAIN evMemo THEN {evMemo[current_time]}
                  ELSE {a \in GetNextPassAnswers(propagator, current_time, start_time,
                                                min_elevation_deg) :
                           a.kind = "event" => a.los < datetime_max} :
       \E ext \in [EventSlots(ans, start_time, end_time) \ DOMAIN posMemo ->
                      GetPositionAnswers(propagator)] :
          LET pm == ext @@ posMemo
          IN /\ evMemo' = Memo(evMemo, current_time, ans)
             /\ posMemo' = pm
             /\ IF ans.kind = "StopIteration"
                THEN /\ pc' = "done"
                     /\ ended_by' = "StopIteration"
                     /\ UNCHANGED <<passes, current_time, smp, exc>>
                ELSE IF ans.kind \in ErrorKinds
                THEN /\ ended_by' = ans.kind
                     /\ pc' = IF SearchErrorHandler(ans.kind) = "sampling" THEN "sample" ELSE "done"
                     /\ smp' = IF SearchErrorHandler(ans.kind) = "sampling"
                               THEN SamplingLocals(start_time) ELSE smp
                     /\ exc' = IF SearchErrorHandler(ans.kind) = "raise" THEN ans.kind ELSE exc
                     /\ UNCHANGED <<passes, current_time>>
                ELSE IF ans.aos > end_time
                THEN /\ pc' = "done"
                     /\ ended_by' = "beyond"
                     /\ UNCHANGED <<passes, current_time, smp, exc>>
                ELSE IF ans.aos < start_time
                THEN /\ current_time' = CursorAfter(ans.los)
                     /\ UNCHANGED <<pc, passes, smp, ended_by, exc>>
                ELSE /\ passes' = AppendPass(passes, EventPass(ans, pm, Observer))
                     /\ current_time' = CursorAfter(ans.los)
                     /\ UNCHANGED <<pc, smp, ended_by, exc>>
             /\ retries' = IF ans.kind = "event" /\ ~(ans.aos > end_time)
                                /\ ans.aos < start_time
                            THEN (retries + 1) % 2 ELSE retries
    /\ UNCHANGED <<start_time, end_time, min_elevation_deg, run, first_result, datetime_max,
                   fallback>>
    /\ UNCHANGED <<propagator, eclVars, clsVars, mainVars, peakVars, elevVars>>

\* Line 62 false, line 137: the cursor has reached the end of the window.
SearchReturn ==
    /\ pc = "search"
    /\ ~(current_time < end_time)
    /\ pc' = "done"
    /\ ended_by' = "window"
    /\ UNCHANGED <<start_time, end_time, min_elevation_deg, evMemo, posMemo, passes,
                   current_time, smp, exc, run, first_result,
                   retries, datetime_max, fallback>>
    /\ UNCHANGED <<propagator, eclVars, clsVars, mainVars, peakVars, elevVars>>

\* A handler that returns no pass when the scan raises.
FallbackErrorHandlerDropsPasses(accepted) == <<>>

\* Lines 123-125 and 133-135: the scan raised, `passes` was not assigned; break.
FallbackErrorHandler(accepted) == accepted

\* Line 422: current_time += sample_interval raises OverflowError past datetime.max.
StepOverflows(t, latest) == t + SampleIntervalS > latest

\* One turn of the loop of lines 364-422, run from the handler of lines 113-135; a
\* step that raises leaves the scan, and the handler returns compute_passes.
SamplingStep ==
    /\ pc = "sample"
    /\ smp.current_time <= end_time
    /\ \E ans \in IF Slot(smp.current_time) \in DOMAIN posMemo
                  THEN {posMemo[Slot(smp.current_time)]}
                  ELSE GetPositionAnswers(propagator) :
          /\ posMemo' = Memo(posMemo, Slot(smp.current_time), ans)
          /\ IF StepOverflows(smp.current_time, datetime_max)
             THEN /\ smp' = [sampling_body(smp, ans, Observer, min_elevation_deg)
                                EXCEPT !.current_time = smp.current_time]
                  /\ fallback' = "raised"
                  /\ passes' = FallbackErrorHandler(passes)
                  /\ pc' = "done"
             ELSE /\ smp' = sampling_body(smp, ans, Observer, min_elevation_deg)
                  /\ UNCHANGED <<fallback, passes, pc>>
    /\ UNCHANGED <<start_time, end_time, min_elevation_deg, evMemo,
                   current_time, ended_by, exc, run, first_result,
                   retries, datetime_max>>
    /\ UNCHANGED <<propagator, eclVars, clsVars, mainVars, peakVars, elevVars>>

\* Lines 424-440 and the assignment and break of lines 119-122 (129-132).
SamplingReturn ==
    /\ pc = "sample"
    /\ ~(smp.current_time <= end_time)
    /\ passes' = sampling_tail(smp, end_time)
    /\ pc' = "done"
    /\ fallback' = "returned"
    /\ UNCHANGED <<start_time, end_time, min_elevation_deg, evMemo, posMemo, current_time,
                   smp, ended_by, exc, run, first_result,
                   retries, datetime_max>>
    /\ UNCHANGED <<propagator, eclVars, clsVars, mainVars, peakVars, elevVars>>

\* The caller runs compute_passes again with the same arguments and propagator.
MaxRuns == 2

Rerun ==
    /\ pc = "done"
    /\ exc = "none"
    /\ run < MaxRuns
    /\ run' = run + 1
    /\ first_result' = IF run = 1 THEN passes ELSE first_result
    /\ retries' = 0
    /\ fallback' = "none"
    /\ passes' = EntryPasses(passes)
    /\ current_time' = start_time
    /\ smp' = SamplingLocals(start_time)
    /\ pc' = "search"
    /\ ended_by' = "none"
    /\ UNCHANGED <<start_time, end_time, min_elevation_deg, evMemo, posMemo, exc,
                   datetime_max>>
    /\ UNCHANGED <<propagator, eclVars, clsVars, mainVars, peakVars, elevVars>>


\* ------------------------------------------------- the detection's start state
\* datetime.max when the window lies further from it than the scan and the events
\* reach.
DatetimeFar == SampleIntervalS * (MaxSlots + 3)

\* datetime.max when the window ends in its last minute: three quarters of a sample
\* interval after end.
DatetimeNear(end) == end + (3 * SampleIntervalS) \div 4

\* The window ends on a sample of the scan or between two samples.
EndTimes == {SampleIntervalS * MaxSlots, SampleIntervalS * MaxSlots - 30}

InitDetection ==
    /\ start_time = 0
    /\ end_time \in EndTimes
    /\ min_elevation_deg = DefaultMinElevationDeg
    /\ evMemo = <<>>
    /\ posMemo = <<>>
    /\ pc = "search"
    /\ passes = EntryPasses(<<>>)
    /\ current_time = start_time
    /\ smp = SamplingLocals(start_time)
    /\ ended_by = "none"
    /\ exc = "none"
    /\ run = 1
    /\ first_result = <<>>
    /\ retries = 0
    /\ fallback = "none"

\* compute_passes is not called.
IdleDetection ==
    /\ start_time = 0
    /\ end_time = 0
    /\ min_elevation_deg = DefaultMinElevationDeg
    /\ evMemo = <<>>
    /\ posMemo = <<>>
    /\ pc = "idle"
    /\ passes = <<>>
    /\ current_time = 0
    /\ smp = SamplingLocals(0)
    /\ ended_by = "none"
    /\ exc = "none"
    /\ run = 1
    /\ first_result = <<>>
    /\ retries = 0
    /\ fallback = "none"
    /\ propagator = "next"
    /\ datetime_max = DatetimeFar

\* ------------------------------------------------- is_in_eclipse as a call
\* Kilometres along an axis: inside the Earth, low orbit, high orbit.
AxisKm == {-30000, -7000, -3000, 0, 3000, 7000, 30000}

\* The object's positions: in the ecliptic plane, off the centre of the Earth.
SatellitePositions == {<<x, y, 0>> : x, y \in AxisKm} \ {Vec0}

\* The illuminator's positions: on an axis, at the Sun's distance or at a
\* hundred and fiftieth of it.
SunPositions ==
    {Scale(u, d) : u \in {<<1, 0, 0>>, <<-1, 0, 0>>, <<0, 1, 0>>, <<0, -1, 0>>,
                          <<0, 0, 1>>, <<0, 0, -1>>},
                   d \in {SunDistanceKm, 1000 * 1000}}

InitEclipse ==
    /\ satellite_position \in SatellitePositions
    /\ sun_position \in SunPositions
    /\ ecl_pc = "call"
    /\ ecl_result = FALSE

\* is_in_eclipse is not called.
IdleEclipse ==
    /\ satellite_position = <<SemiMajorAxisKm, 0, 0>>
    /\ sun_position = <<SunDistanceKm, 0, 0>>
    /\ ecl_pc = "idle"
    /\ ecl_result = FALSE

\* is_in_eclipse(satellite_position, sun_position) with the default radius.
IsInEclipseCall ==
    /\ ecl_pc = "call"
    /\ ecl_result' = is_in_eclipse(satellite_position, sun_position, EarthRadiusKm)
    /\ ecl_pc' = "returned"
    /\ UNCHANGED <<satellite_position, sun_position>>
    /\ UNCHANGED <<detVars, clsVars, mainVars, peakVars, elevVars>>

\* ------------------------------------------- main.py: positions for a sample
\* Line 60: whole days since 2000-01-01; the model's times are seconds since then.
DaysSinceEpoch(time) == time \div 86400

\* Line 62 in whole degrees: 360 * days / 365.25.
MeanAnomalyDeg(days) == (36000 * days) \div 36525

\* get_sun_position(time), lines 60-71 (the model's times are within day 0).
get_sun_position(time) ==
    <<SunDistanceKm * CosDeg(MeanAnomalyDeg(DaysSinceEpoch(time))),
      SunDistanceKm * SinDeg(MeanAnomalyDeg(DaysSinceEpoch(time))), 0>>

\* get_satellite_position(predictor, time) on the answer of predictor.get_position.
get_satellite_position(position) == position.position_km

\* predictor.get_position during classification: it raises, the satellite is behind
\* the Earth (in its shadow on day 0), or the satellite is on the sunlit side.
ClassifyAnswers ==
    {PositionRaises, PositionOf(<<-7000, 0, 0>>, TRUE), PositionOf(<<7000, 0, 0>>, TRUE)}

\* The illuminator query: it raises or it answers get_sun_position(time).
SunAnswers(time) ==
    {[raises |-> TRUE, position |-> Vec0],
     [raises |-> FALSE, position |-> get_sun_position(time)]}

\* ------------------------------------------ main.py: check_pass_eclipse
\* Line 102: the 60 seconds a sample stands for.
SecondsPerSample == 60

\* Line 102: num_samples = max(5, int(duration / 60)).
NumSeriesSamples(duration) == Max2(MinSamples, duration \div SecondsPerSample)

\* The divisor of line 106 taken as the number of samples.
SeriesDivisorIsCount(num_samples) == num_samples

\* Line 106: the divisor num_samples - 1.
SeriesDivisor(num_samples) == num_samples - 1

\* Line 106: sample_time for index i.
SampleTime(rise_time, duration, i, num_samples) ==
    rise_time + TimedeltaSeconds(duration * i, SeriesDivisor(num_samples))

\* Lines 104-107 as a whole: the list sample_times of a pass.
SampleSeries(p) ==
    [k \in 1..NumSeriesSamples(p.set_time - p.rise_time) |->
        SampleTime(p.rise_time, p.set_time - p.rise_time, k - 1,
                   NumSeriesSamples(p.set_time - p.rise_time))]

Routines == {"check_pass_eclipse", "check_eclipse_during_pass"}

\* What becomes of an exception raised in the body of the classification loop:
\* main.py lines 116-117 catch it and continue; eclipse.py lines 122-127 have no
\* handler.
SampleErrorHandler(r) == IF r = "check_pass_eclipse" THEN "continue" ELSE "raise"

\* The passes classified: rise at 0 or 90 s, any whole duration up to MaxDuration.
ClassifiedPasses ==
    {PassInfo(r, r, r + d, DefaultMinElevationDeg) : r \in {0, 90}, d \in 0..MaxDuration}

\* check_pass_eclipse(pass_info, predictor) is entered with an empty sample_times;
\* check_eclipse_during_pass(pass_times, ...) is handed the series of the pass.
InitClassify ==
    /\ routine \in Routines
    /\ pass_info \in ClassifiedPasses
    /\ sample_times = IF routine = "check_pass_eclipse" THEN <<>> ELSE SampleSeries(pass_info)
    /\ cls_pc = IF routine = "check_pass_eclipse" THEN "build" ELSE "classify"
    /\ cls_i = 0
    /\ cls_result = "none"
    /\ cls_raised = 0
    /\ cls_verdicts = 0
    /\ cls_eclipsed = 0

\* No classifier is called.
IdleClassify ==
    /\ routine = "check_pass_eclipse"
    /\ pass_info = PassInfo(0, 0, 0, DefaultMinElevationDeg)
    /\ sample_times = <<>>
    /\ cls_pc = "idle"
    /\ cls_i = 0
    /\ cls_result = "none"
    /\ cls_raised = 0
    /\ cls_verdicts = 0
    /\ cls_eclipsed = 0

\* One turn of the loop of lines 105-107.
BuildSample ==
    /\ cls_pc = "build"
    /\ Len(sample_times) < NumSeriesSamples(pass_info.set_time - pass_info.rise_time)
    /\ sample_times' = Append(sample_times,
                              SampleTime(pass_info.rise_time,
                                         pass_info.set_time - pass_info.rise_time,
                                         Len(sample_times),
                                         NumSeriesSamples(pass_info.set_time - pass_info.rise_time)))
    /\ UNCHANGED <<routine, pass_info, cls_pc, cls_i, cls_result, cls_raised, cls_verdicts,
                   cls_eclipsed>>
    /\ UNCHANGED <<detVars, eclVars, mainVars, peakVars, elevVars>>

\* range(num_samples) is exhausted: on to the loop of line 110.
BuildReturn ==
    /\ cls_pc = "build"
    /\ ~(Len(sample_times) < NumSeriesSamples(pass_info.set_time - pass_info.rise_time))
    /\ cls_pc' = "classify"
    /\ UNCHANGED <<routine, pass_info, sample_times, cls_i, cls_result, cls_raised,
                   cls_verdicts, cls_eclipsed>>
    /\ UNCHANGED <<detVars, eclVars, mainVars, peakVars, elevVars>>

\* A loop that goes on to the next sample whatever the verdict.
VerdictNeverReturns(eclipsed) == FALSE

\* main.py lines 113-114, eclipse.py lines 125-126: an eclipsed sample ends the loop
\* with `return True`.
VerdictReturns(eclipsed) == eclipsed

\* One turn of the loop of main.py lines 110-117, or of eclipse.py lines 122-126.
ClassifySample ==
    /\ cls_pc = "classify"
    /\ cls_i < Len(sample_times)
    /\ \E sat \in ClassifyAnswers, sun \in SunAnswers(sample_times[cls_i + 1]) :
          IF sat.raises \/ sun.raises
          THEN /\ cls_raised' = cls_raised + 1
               /\ IF SampleErrorHandler(routine) = "continue"
                  THEN /\ cls_i' = cls_i + 1
                       /\ UNCHANGED <<cls_pc, cls_result>>
                  ELSE /\ cls_pc' = "returned"
                       /\ cls_result' = "raised"
                       /\ UNCHANGED cls_i
               /\ UNCHANGED <<cls_verdicts, cls_eclipsed>>
          ELSE /\ cls_verdicts' = cls_verdicts + 1
               /\ cls_eclipsed' =
                     IF is_in_eclipse(get_satellite_position(sat), sun.position, EarthRadiusKm)
                     THEN cls_eclipsed + 1 ELSE cls_eclipsed
               /\ IF VerdictReturns(is_in_eclipse(get_satellite_position(sat), sun.position,
                                                  EarthRadiusKm))
                  THEN /\ cls_pc' = "returned"
                       /\ cls_result' = "true"
                       /\ UNCHANGED cls_i
                  ELSE /\ cls_i' = cls_i + 1
                       /\ UNCHANGED <<cls_pc, cls_result>>
               /\ UNCHANGED cls_raised
    /\ UNCHANGED <<routine, pass_info, sample_times>>
    /\ UNCHANGED <<detVars, eclVars, mainVars, peakVars, elevVars>>

\* main.py line 119, eclipse.py line 127: return False.
ClassifyReturn ==
    /\ cls_pc = "classify"
    /\ ~(cls_i < Len(sample_times))
    /\ cls_pc' = "returned"
    /\ cls_result' = "false"
    /\ UNCHANGED <<routine, pass_info, sample_times, cls_i, cls_raised, cls_verdicts,
                   cls_eclipsed>>
    /\ UNCHANGED <<detVars, eclVars, mainVars, peakVars, elevVars>>

\* ------------------------------------------------------ main.py: main
\* A pass as main's loop sees it, and the row appended for it (lines 297-305);
\* the rise and set times and the elevation are carried along unread.
SatPass(satellite_id, peak_time) == [satellite_id |-> satellite_id, peak_time |-> peak_time]
Row(p, eclipse) ==
    [satellite_id |-> p.satellite_id, peak_time |-> p.peak_time, eclipse |-> eclipse]

\* What compute_passes returns for a satellite: no pass, one, or two in rise order.
PassLists(satellite_id) ==
    {<<>>, <<SatPass(satellite_id, SampleIntervalS)>>,
     <<SatPass(satellite_id, SampleIntervalS), SatPass(satellite_id, 2 * SampleIntervalS)>>}

\* The handler of lines 307-309 leaving the loop at satellite i of n.
MainErrorHandlerBreaks(i, n) == n + 1

\* Lines 307-309: print a warning and continue: the satellite after i of n is next.
MainErrorHandler(i, n) == i + 1

\* x placed in a list sorted by descending peak_time, behind its equals.
InsertByPeak(sorted, x) ==
    LET before == Cardinality({k \in 1..Len(sorted) : sorted[k].peak_time >= x.peak_time})
    IN SubSeq(sorted, 1, before) \o <<x>> \o SubSeq(sorted, before + 1, Len(sorted))

\* Line 312: list.sort(key = peak_time, reverse = True), a stable sort.
RECURSIVE SortByPeak(_, _)
SortByPeak(sorted, rest) ==
    IF rest = <<>> THEN sorted
    ELSE CHOOSE result \in
             {SortByPeak(next, Tail(rest)) : next \in {InsertByPeak(sorted, Head(rest))}} :
             TRUE

InitMain ==
    /\ tles = [i \in 1..MaxSats |-> i]
    /\ sat_i = 1
    /\ main_pc = "create"
    /\ sat_passes = <<>>
    /\ pass_i = 1
    /\ all_passes = <<>>
    /\ entered = {}
    /\ failed = {}
    /\ collected = {}

\* main is not run.
IdleMain ==
    /\ tles = <<>>
    /\ sat_i = 1
    /\ main_pc = "idle"
    /\ sat_passes = <<>>
    /\ pass_i = 1
    /\ all_passes = <<>>
    /\ entered = {}
    /\ failed = {}
    /\ collected = {}

\* The except clause of lines 307-309, reached from satellite sat_i.
MainHandled ==
    /\ failed' = failed \cup {tles[sat_i]}
    /\ sat_i' = MainErrorHandler(sat_i, Len(tles))
    /\ main_pc' = "create"

\* Lines 272-285: the loop takes the next satellite and creates its predictor.
MainCreatePredictor ==
    /\ main_pc = "create"
    /\ sat_i <= Len(tles)
    /\ entered' = entered \cup {tles[sat_i]}
    /\ \E raises \in BOOLEAN :
          IF raises
          THEN MainHandled
          ELSE /\ main_pc' = "detect"
               /\ UNCHANGED <<sat_i, failed>>
    /\ UNCHANGED <<tles, sat_passes, pass_i, all_passes, collected>>
    /\ UNCHANGED <<detVars, eclVars, clsVars, peakVars, elevVars>>

\* Lines 288-290: compute_passes raises or returns the satellite's passes.
MainComputePasses ==
    /\ main_pc = "detect"
    /\ \/ /\ MainHandled
          /\ UNCHANGED <<sat_passes, pass_i>>
       \/ \E list \in PassLists(tles[sat_i]) :
             /\ sat_passes' = list
             /\ pass_i' = 1
             /\ main_pc' = "classify"
             /\ UNCHANGED <<sat_i, failed>>
    /\ UNCHANGED <<tles, all_passes, entered, collected>>
    /\ UNCHANGED <<detVars, eclVars, clsVars, peakVars, elevVars>>

\* Lines 294-305: check_pass_eclipse raises, or the row of the pass is appended.
MainClassifyPass ==
    /\ main_pc = "classify"
    /\ pass_i <= Len(sat_passes)
    /\ \/ /\ MainHandled
          /\ UNCHANGED <<pass_i, all_passes, collected>>
       \/ \E eclipse \in BOOLEAN :
             /\ all_passes' = Append(all_passes, Row(sat_passes[pass_i], eclipse))
             /\ collected' = collected \cup {Row(sat_passes[pass_i], eclipse)}
             /\ pass_i' = pass_i + 1
             /\ UNCHANGED <<sat_i, main_pc, failed>>
    /\ UNCHANGED <<tles, sat_passes, entered>>
    /\ UNCHANGED <<detVars, eclVars, clsVars, peakVars, elevVars>>

\* The loop of line 294 is exhausted: the next satellite's turn.
MainNextSatellite ==
    /\ main_pc = "classify"
    /\ ~(pass_i <= Len(sat_passes))
    /\ sat_i' = sat_i + 1
    /\ main_pc' = "create"
    /\ UNCHANGED <<tles, sat_passes, pass_i, all_passes, entered, failed, collected>>
    /\ UNCHANGED <<detVars, eclVars, clsVars, peakVars, elevVars>>

\* Lines 312-315: the loop of line 272 is exhausted; sort and print.
MainSort ==
    /\ main_pc = "create"
    /\ ~(sat_i <= Len(tles))
    /\ all_passes' = SortByPeak(<<>>, all_passes)
    /\ main_pc' = "done"
    /\ UNCHANGED <<tles, sat_i, sat_passes, pass_i, entered, failed, collected>>
    /\ UNCHANGED <<detVars, eclVars, clsVars, peakVars, elevVars>>

\* ------------------------------------------- find_peak_elevation as a call
\* predictor.get_position during the scan: as in PositionAnswers, or at the
\* observer's zenith (90 degrees), or at the nadir (-90 degrees).
PeakAnswers ==
    PositionAnswers \cup {PositionOf(<<7000, 0, 0>>, TRUE), PositionOf(<<-7000, 0, 0>>, TRUE)}

\* The lengths of the passes scanned: none, 49 s (one second a sample), whole minutes.
PeakDurations == {0, 49} \cup {SampleIntervalS * k : k \in 1..MaxSlots}

InitPeak ==
    /\ peak_rise \in {0, 30}
    /\ peak_set \in {peak_rise + d : d \in PeakDurations}
    /\ peak_positions \in [FindPeakSlots(peak_rise, peak_set, NumSamples) -> PeakAnswers]
    /\ peak_pc = "call"
    /\ peak_result = [peak_time |-> 0, max_elevation |-> 0]

\* find_peak_elevation is not called.
IdlePeak ==
    /\ peak_rise = 0
    /\ peak_set = 0
    /\ peak_positions = <<>>
    /\ peak_pc = "idle"
    /\ peak_result = [peak_time |-> 0, max_elevation |-> 0]

\* find_peak_elevation(predictor, location, rise_time, set_time) with the default
\* num_samples.
FindPeakCall ==
    /\ peak_pc = "call"
    /\ peak_result' = find_peak_elevation(peak_positions, Observer, peak_rise, peak_set,
                                          NumSamples)
    /\ peak_pc' = "returned"
    /\ UNCHANGED <<peak_rise, peak_set, peak_positions>>
    /\ UNCHANGED <<detVars, eclVars, clsVars, mainVars, elevVars>>

\* ------------------------------------------- the elevation functions as calls
ElevationFunctions == {"calculate_elevation", "calculate_elevation_from_ecef"}

\* Positions: the centre of the Earth, the observers' own positions, and others.
ElevationPositions ==
    {Vec0, <<SemiMajorAxisKm, 0, 0>>, <<0, SemiMajorAxisKm, 0>>, <<-SemiMajorAxisKm, 0, 0>>,
     <<SemiMajorAxisKm + 1, 0, 0>>, <<7000, 0, 0>>, <<-7000, 0, 0>>, <<0, 7000, 0>>,
     <<SemiMajorAxisKm, 7000, 0>>, <<0, 0, 7000>>, <<3000, 0, 0>>}

\* Observers on the equator: at sea level, 1 km up, and at the centre of the Earth
\* (elevation_m = -a, where the observer vector has zero magnitude).
ElevationLocations ==
    [latitude_deg : {0}, longitude_deg : {0, 90, 180},
     elevation_m : {0, 1000, -1000 * SemiMajorAxisKm}]

InitElevation ==
    /\ elev_function \in ElevationFunctions
    /\ elev_position \in ElevationPositions
    /\ elev_location \in ElevationLocations
    /\ elev_pc = "call"
    /\ elev_result = 0

\* No elevation function is called.
IdleElevation ==
    /\ elev_function = "calculate_elevation"
    /\ elev_position = Vec0
    /\ elev_location = Observer
    /\ elev_pc = "idle"
    /\ elev_result = 0

\* calculate_elevation(position, lat, lon, elevation_m) or
\* calculate_elevation_from_ecef(position, lat, lon, elevation_m).
ElevationCall ==
    /\ elev_pc = "call"
    /\ elev_result' = IF elev_function = "calculate_elevation"
                      THEN calculate_elevation(elev_position, elev_location)
                      ELSE calculate_elevation_from_ecef(elev_position, elev_location)
    /\ elev_pc' = "returned"
    /\ UNCHANGED <<elev_function, elev_position, elev_location>>
    /\ UNCHANGED <<detVars, eclVars, clsVars, mainVars, peakVars>>

\* ------------------------------- compute_passes_by_sampling as a call
\* The window of a direct call may be one minute longer.
ScanEndTimes == EndTimes \cup {SampleIntervalS * (MaxSlots + 1)}

\* Lines 355-362: the caller enters compute_passes_by_sampling itself.
InitSampling ==
    /\ start_time = 0
    /\ end_time \in ScanEndTimes
    /\ min_elevation_deg = DefaultMinElevationDeg
    /\ evMemo = <<>>
    /\ posMemo = <<>>
    /\ pc = "sample"
    /\ passes = <<>>
    /\ current_time = start_time
    /\ smp = SamplingLocals(start_time)
    /\ ended_by = "called"
    /\ exc = "none"
    /\ run = 1
    /\ first_result = <<>>
    /\ retries = 0
    /\ fallback = "none"

\* ------------------------------------------------------ the specifications
\* compute_passes, run once.
Init ==
    /\ InitDetection /\ propagator = "next" /\ datetime_max = DatetimeFar
    /\ IdleEclipse /\ IdleClassify /\ IdleMain /\ IdlePeak /\ IdleElevation
Next == EventSearch \/ SearchReturn \/ SamplingStep \/ SamplingReturn
Spec == Init /\ [][Next]_vars

\* compute_passes, run again and again on the same propagator.
NextRerun == EventSearch \/ SearchReturn \/ SamplingStep \/ SamplingReturn \/ Rerun
SpecRerun == Init /\ [][NextRerun]_vars

\* is_in_eclipse on each pair of positions.
InitEclipseCall ==
    IdleDetection /\ InitEclipse /\ IdleClassify /\ IdleMain /\ IdlePeak /\ IdleElevation
NextEclipse == IsInEclipseCall
SpecEclipse == InitEclipseCall /\ [][NextEclipse]_vars

\* The two eclipse classifiers on each pass.
InitClassifyCall ==
    IdleDetection /\ IdleEclipse /\ InitClassify /\ IdleMain /\ IdlePeak /\ IdleElevation
NextClassify == BuildSample \/ BuildReturn \/ ClassifySample \/ ClassifyReturn
SpecClassify == InitClassifyCall /\ [][NextClassify]_vars

\* main's loop over the satellites.
InitMainRun ==
    IdleDetection /\ IdleEclipse /\ IdleClassify /\ InitMain /\ IdlePeak /\ IdleElevation
NextMain ==
    MainCreatePredictor \/ MainComputePasses \/ MainClassifyPass \/ MainNextSatellite
        \/ MainSort
SpecMain == InitMainRun /\ [][NextMain]_vars

\* compute_passes_by_sampling called on its own, on a propagator of kind "high".
InitSamplingCall ==
    /\ InitSampling /\ propagator = "high" /\ datetime_max = DatetimeFar
    /\ IdleEclipse /\ IdleClassify /\ IdleMain /\ IdlePeak /\ IdleElevation
NextSampling == SamplingStep \/ SamplingReturn
SpecSampling == InitSamplingCall /\ [][NextSampling]_vars

\* compute_passes on a propagator of kind "stale"; the program runs on while it can.
InitStale ==
    /\ InitDetection /\ propagator = "stale" /\ datetime_max = DatetimeFar
    /\ IdleEclipse /\ IdleClassify /\ IdleMain /\ IdlePeak /\ IdleElevation
\* Its get_next_pass never fails, so the sampling scan is never entered.
NextStale == EventSearch \/ SearchReturn
SpecStale == InitStale /\ [][NextStale]_vars /\ WF_vars(NextStale)

\* compute_passes on a window that ends in the last minute before datetime.max.
InitLastMinute ==
    /\ InitDetection /\ propagator = "next" /\ datetime_max = DatetimeNear(end_time)
    /\ IdleEclipse /\ IdleClassify /\ IdleMain /\ IdlePeak /\ IdleElevation
SpecLastMinute == InitLastMinute /\ [][Next]_vars

\* find_peak_elevation on each pass and each run of positions.
InitPeakCall ==
    /\ IdleDetection /\ IdleEclipse /\ IdleClassify /\ IdleMain /\ InitPeak /\ IdleElevation
NextPeak == FindPeakCall
SpecPeak == InitPeakCall /\ [][NextPeak]_vars

\* The two elevation functions on each position and observer.
InitElevationCall ==
    /\ IdleDetection /\ IdleEclipse /\ IdleClassify /\ IdleMain /\ IdlePeak /\ InitElevation
NextElevation == ElevationCall
SpecElevation == InitElevationCall /\ [][NextElevation]_vars

\* ------------------------------------------------------------- the claims
Records(list) == {list[i] : i \in 1..Len(list)}

\* An event the search loop has accepted: it rises inside the window.
AcceptedEvents ==
    {t \in DOMAIN evMemo : /\ evMemo[t].kind = "event"
                           /\ ~(evMemo[t].aos > end_time)
                           /\ ~(evMemo[t].aos < start_time)}

\* C1: every pass record compute_passes returns has rise_time <= peak_time <=
\* set_time and a max_elevation of at least min_elevation_deg, whichever strategy
\* made it and whatever the position queries did.
C1_RecordsWellFormed ==
    pc = "done" =>
        \A p \in Records(passes) :
            /\ p.rise_time <= p.peak_time
            /\ p.peak_time <= p.set_time
            /\ p.max_elevation >= min_elevation_deg

C4_AscendingRise ==
    \A i \in 1..(Len(passes) - 1) : passes[i].rise_time <= passes[i + 1].rise_time

\* C4's case: the event search has returned two passes, the second rising later.
C4_Witness ==
    /\ pc = "done"
    /\ ended_by \notin ErrorKinds
    /\ Len(passes) >= 2
    /\ passes[1].rise_time < passes[2].rise_time

\* C5: every pass record returned rises inside the half-open window:
\* start_time <= rise_time < end_time.
C5_RiseInsideWindow ==
    pc = "done" =>
        \A p \in Records(passes) : start_time <= p.rise_time /\ p.rise_time < end_time

\* C6: no error of the propagator leaves compute_passes: whatever get_next_pass
\* and get_position do, the run ends with a list of pass records returned.
C6_NoErrorEscapes ==
    /\ exc = "none"
    /\ pc = "done" =>
          \A p \in Records(passes) :
              DOMAIN p = {"rise_time", "peak_time", "set_time", "max_elevation"}

\* C6's case: get_next_pass has failed, a position query of the sampling scan has
\* failed too, and the run has returned.
C6_Witness ==
    /\ pc = "done"
    /\ ended_by = "other"
    /\ \E s \in DOMAIN posMemo : posMemo[s].raises
    /\ Len(passes) >= 1

\* C10: a second run of compute_passes on the same propagator, observer, window
\* and threshold returns the list the first run returned.
C10_Deterministic == (run >= 2 /\ pc = "done") => passes = first_result

\* C10's case: the second run has returned, with a pass.
C10_Witness ==
    /\ run = 2
    /\ pc = "done"
    /\ Len(passes) >= 1
    /\ ended_by \notin ErrorKinds

\* C3: whenever the unit vectors of the object and the illuminator have a dot
\* product >= 0, is_in_eclipse returns false, whatever the distances.
C3_SunlitSideNeverEclipsed ==
    (ecl_pc = "returned" /\ Dot(satellite_position, AxisUnit(sun_position)) >= 0)
        => ecl_result = FALSE

\* C3, amended: for an object no closer to the centre than earth_radius_km,
\* a dot product >= 0 makes is_in_eclipse return false.
C3_SunlitSideAboveSurface ==
    (/\ ecl_pc = "returned"
     /\ Dot(satellite_position, AxisUnit(sun_position)) >= 0
     /\ Dot(satellite_position, satellite_position) >= EarthRadiusKm * EarthRadiusKm)
        => ecl_result = FALSE

\* C3's case: an object straight towards the illuminator, above the surface,
\* has been classified.
C3_Witness ==
    /\ ecl_pc = "returned"
    /\ satellite_position = <<7000, 0, 0>>
    /\ sun_position = <<SunDistanceKm, 0, 0>>
    /\ ecl_result = FALSE

\* C7: in both classifiers a sample whose position query raises is skipped: the
\* classification is not aborted, and it returns false when every sample fails.
C7_RaisingSampleSkipped ==
    /\ cls_result # "raised"
    /\ (cls_pc = "returned" /\ cls_verdicts = 0) => cls_result = "false"

\* C8: the sample series of a pass has max(5, floor(duration / 60)) timestamps, at
\* least 5; the first is rise_time, the last is set_time, none is earlier than the
\* one before it.
C8_SampleSeries ==
    (routine = "check_pass_eclipse" /\ cls_pc # "build") =>
        /\ Len(sample_times) >= 5
        /\ Len(sample_times) = IF (pass_info.set_time - pass_info.rise_time) \div 60 > 5
                               THEN (pass_info.set_time - pass_info.rise_time) \div 60
                               ELSE 5
        /\ sample_times[1] = pass_info.rise_time
        /\ sample_times[Len(sample_times)] = pass_info.set_time
        /\ \A i \in 1..(Len(sample_times) - 1) : sample_times[i] <= sample_times[i + 1]

\* C8's case: the series of the longest pass, of more than five samples, has been
\* built.
C8_Witness ==
    /\ routine = "check_pass_eclipse"
    /\ cls_pc = "classify"
    /\ pass_info.set_time - pass_info.rise_time = MaxDuration
    /\ Len(sample_times) > 5

\* C9: a failure in one satellite's turn does not end main's loop: every satellite
\* has its turn, and every row appended is in the output.
C9_LoopSurvivesFailure ==
    /\ collected \subseteq Records(all_passes)
    /\ main_pc = "done" => entered = Records(tles)

\* C9's case: the first satellite has failed after a row of its own was
\* appended, and the run has ended with a row of a later satellite.
C9_Witness ==
    /\ main_pc = "done"
    /\ tles[1] \in failed
    /\ \E r \in Records(all_passes) : r.satellite_id = tles[1]
    /\ \E r \in Records(all_passes) : r.satellite_id # tles[1]

\* C11: an event whose rise time lies before start_time is never emitted: the step
\* of the event search that receives it leaves the list of passes as it was, moves
\* the cursor to the event's set time plus one second, and goes on searching.
C11_EarlyEventSkipped ==
    [][(/\ pc = "search"
        /\ current_time < end_time
        /\ current_time \in DOMAIN evMemo'
        /\ evMemo'[current_time].kind = "event"
        /\ ~(evMemo'[current_time].aos > end_time)
        /\ evMemo'[current_time].aos < start_time)
       => (/\ passes' = passes
           /\ current_time' = evMemo'[current_time].los + 1
           /\ pc' = "search")]_vars

\* The first event of a search was in progress at start_time, the search was retried
\* one second after its set time, and the run returned a later pass.
C11_Witness ==
    /\ pc = "done"
    /\ ended_by \notin ErrorKinds
    /\ start_time \in DOMAIN evMemo
    /\ evMemo[start_time].kind = "event"
    /\ evMemo[start_time].aos < start_time
    /\ evMemo[start_time].los >= start_time
    /\ (evMemo[start_time].los + 1) \in DOMAIN evMemo
    /\ Len(passes) >= 1
    /\ \A i \in 1..Len(passes) : passes[i].rise_time > evMemo[start_time].los

\* C12: in compute_passes_by_sampling a sample whose position query raises is
\* treated as absent: the turn of the loop changes neither the in-pass flag nor the
\* recorded elevations and times (nor the passes closed so far); only the sample
\* time moves on by one interval.
C12_RaisingSampleAbsent ==
    [][(/\ pc = "sample"
        /\ smp.current_time <= end_time
        /\ Slot(smp.current_time) \in DOMAIN posMemo'
        /\ posMemo'[Slot(smp.current_time)].raises)
       => smp' = [smp EXCEPT !.current_time = @ + SampleIntervalS]]_vars

\* A pass is open, its last recorded sample is two intervals back, and the query of
\* the sample in between raised.
C12_Witness ==
    /\ pc = "sample"
    /\ smp.in_pass
    /\ Len(smp.pass_times) >= 1
    /\ smp.pass_times[Len(smp.pass_times)] = smp.current_time - 2 * SampleIntervalS
    /\ Slot(smp.current_time - SampleIntervalS) \in DOMAIN posMemo
    /\ posMemo[Slot(smp.current_time - SampleIntervalS)].raises

\* C13: when the scan is in a pass and meets a sample below the threshold, exactly
\* one pass is closed: its rise time is the time of the first recorded sample, its
\* set time the current sample time minus one interval, its peak elevation the
\* highest recorded elevation and its peak time the time of the first recorded
\* sample that reached that elevation.
C13_BelowThresholdClosesPass ==
    [][(/\ pc = "sample"
        /\ smp.current_time <= end_time
        /\ smp.in_pass
        /\ Slot(smp.current_time) \in DOMAIN posMemo'
        /\ ~posMemo'[Slot(smp.current_time)].raises
        /\ SampleElevation(posMemo'[Slot(smp.current_time)], Observer) < min_elevation_deg)
       => (/\ ~smp'.in_pass
           /\ Len(smp'.passes) = Len(smp.passes) + 1
           /\ SubSeq(smp'.passes, 1, Len(smp.passes)) = smp.passes
           /\ LET closed == smp'.passes[Len(smp'.passes)]
                  n == Len(smp.pass_elevations)
              IN /\ closed.rise_time = smp.pass_times[1]
                 /\ closed.set_time = smp.current_time - SampleIntervalS
                 /\ \A i \in 1..n : smp.pass_elevations[i] <= closed.max_elevation
                 /\ \E i \in 1..n :
                       /\ smp.pass_elevations[i] = closed.max_elevation
                       /\ smp.pass_times[i] = closed.peak_time
                       /\ \A j \in 1..(i - 1) :
                              smp.pass_elevations[j] < closed.max_elevation)]_vars

\* A sample below the threshold has just closed a pass of three recorded samples,
\* of which the second was the first to reach the highest elevation.
C13_Witness ==
    /\ pc = "sample"
    /\ ~smp.in_pass
    /\ Len(smp.passes) = 1
    /\ smp.passes[1].rise_time < smp.passes[1].peak_time
    /\ smp.passes[1].peak_time < smp.passes[1].set_time
    /\ smp.current_time = smp.passes[1].set_time + 2 * SampleIntervalS
    /\ ~posMemo[Slot(smp.passes[1].set_time)].raises
    /\ SampleElevation(posMemo[Slot(smp.passes[1].set_time)], Observer)
           = smp.passes[1].max_elevation

\* C14: if the scan is still in a pass when the sample time has gone past end_time,
\* exactly one further pass is emitted, as the last record, with set_time = end_time
\* and its rise and peak taken from the recorded samples; otherwise nothing is
\* emitted after the loop.
C14_OpenPassEmittedLast ==
    [][(pc = "sample" /\ ~(smp.current_time <= end_time))
       => (/\ pc' = "done"
           /\ IF smp.in_pass
              THEN /\ Len(passes') = Len(smp.passes) + 1
                   /\ SubSeq(passes', 1, Len(smp.passes)) = smp.passes
                   /\ LET last == passes'[Len(passes')]
                          n == Len(smp.pass_elevations)
                      IN /\ last.set_time = end_time
                         /\ last.rise_time = smp.pass_times[1]
                         /\ \A i \in 1..n : smp.pass_elevations[i] <= last.max_elevation
                         /\ \E i \in 1..n :
                               /\ smp.pass_elevations[i] = last.max_elevation
                               /\ smp.pass_times[i] = last.peak_time
                               /\ \A j \in 1..(i - 1) :
                                      smp.pass_elevations[j] < last.max_elevation
              ELSE passes' = smp.passes)]_vars

\* The scan has returned with a pass closed inside the loop and, after it, the pass
\* that was still open at the end of the window.
C14_Witness ==
    /\ pc = "done"
    /\ ended_by = "called"
    /\ smp.in_pass
    /\ Len(smp.passes) = 1
    /\ Len(passes) = 2
    /\ passes[1] = smp.passes[1]
    /\ passes[2].set_time = end_time
    /\ passes[2].rise_time > passes[1].set_time

\* C15: find_peak_elevation scans 50 evenly spaced samples over [rise, set] and
\* returns the maximum observed elevation with the time of its first occurrence,
\* and its peak time always lies within [rise, set].  (That an accepted event's peak
\* comes from the event when it supplies both peak attributes, and that the cursor
\* is then its set time plus one second, is EventPeak and CursorAfter.)
C15_PeakIsFirstMaxObserved ==
    peak_pc = "returned" =>
        \E el \in {[s \in DOMAIN peak_positions |->
                       IF peak_positions[s].raises THEN NoElevationDeg
                       ELSE calculate_elevation(peak_positions[s].position_km, Observer)]} :
            LET SampleAt(i) == FindPeakTime(peak_rise, peak_set - peak_rise, i, NumSamples)
                observed == {i \in 0..(NumSamples - 1) :
                                ~peak_positions[Slot(SampleAt(i))].raises}
            IN /\ peak_rise <= peak_result.peak_time
               /\ peak_result.peak_time <= peak_set
               /\ observed # {} =>
                      \E i \in observed :
                         /\ peak_result.max_elevation = el[Slot(SampleAt(i))]
                         /\ peak_result.peak_time = SampleAt(i)
                         /\ \A j \in observed : el[Slot(SampleAt(j))] <= el[Slot(SampleAt(i))]
                         /\ \A j \in observed :
                                j < i => el[Slot(SampleAt(j))] < el[Slot(SampleAt(i))]

\* C16: check_pass_eclipse returns true exactly when at least one sample whose two
\* queries both succeeded is classified eclipsed; the samples are examined in the
\* ascending order of the series, and no sample after the first eclipsed one is
\* queried (the samples queried are those before the cursor, and the eclipsed one).
C16_TrueIffSomeSampleEclipsed ==
    routine = "check_pass_eclipse" =>
        /\ cls_eclipsed <= 1
        /\ cls_eclipsed = 1 => (cls_pc = "returned" /\ cls_result = "true")
        /\ cls_pc = "returned" =>
              /\ cls_result \in {"true", "false"}
              /\ cls_result = "true" <=> cls_eclipsed >= 1
              /\ cls_result = "false" => cls_i = Len(sample_times)
        /\ cls_raised + cls_verdicts = cls_i + cls_eclipsed
        /\ cls_i <= Len(sample_times)
        /\ \A i \in 1..(Len(sample_times) - 1) : sample_times[i] <= sample_times[i + 1]

\* The loop returned true on an eclipsed sample that came after a sunlit sample and
\* a sample whose query raised, with samples of the series left unqueried.
C16_Witness ==
    /\ routine = "check_pass_eclipse"
    /\ cls_pc = "returned"
    /\ cls_result = "true"
    /\ cls_eclipsed = 1
    /\ cls_raised >= 1
    /\ cls_verdicts >= 2
    /\ cls_i + 1 < Len(sample_times)

\* C17: both elevation functions return 90 degrees when the line of sight has zero
\* length, also when the observer vector has zero magnitude as well (the line of
\* sight is tested first); they return 0 degrees when only the observer vector has
\* zero magnitude; and every value they return lies in [-90, 90].
C17_DegenerateElevations ==
    elev_pc = "returned" =>
        LET obs == ObserverECEF(elev_location)
            los == Sub(elev_position, obs)
        IN /\ los = Vec0 => elev_result = 90
           /\ (los # Vec0 /\ obs = Vec0) => elev_result = 0
           /\ elev_result >= -90
           /\ elev_result <= 90

\* calculate_elevation has returned 90 for a position at the centre of the Earth
\* seen by an observer at the centre of the Earth: both vectors are zero.
C17_Witness ==
    /\ elev_pc = "returned"
    /\ elev_function = "calculate_elevation"
    /\ elev_position = Vec0
    /\ ObserverECEF(elev_location) = Vec0
    /\ elev_result = 90

\* C18: compute_passes terminates for every finite window and every propagator that
\* always returns or fails: every run that keeps taking steps reaches its return.
C18_Terminates == <>(pc = "done")

\* C19, as stated: the set time of every pass closed by a sample below the threshold
\* is the timestamp of the last sample recorded in that pass, also when position
\* queries failed during the pass.
C19_SetTimeIsLastRecorded ==
    [][(/\ pc = "sample"
        /\ smp.current_time <= end_time
        /\ smp.in_pass
        /\ Slot(smp.current_time) \in DOMAIN posMemo'
        /\ ~posMemo'[Slot(smp.current_time)].raises
        /\ SampleElevation(posMemo'[Slot(smp.current_time)], Observer) < min_elevation_deg)
       => smp'.passes[Len(smp'.passes)].set_time = smp.pass_times[Len(smp.pass_times)]]_vars

\* C19, amended: the set time of every pass closed by a sample below the threshold is
\* the time of the closing sample minus one interval; it is the timestamp of the
\* last sample recorded in the pass exactly when the position query one interval
\* before the closing sample did not fail, and otherwise a later time, at which the
\* query failed.
C19_SetTimeIsStepBeforeClosing ==
    [][(/\ pc = "sample"
        /\ smp.current_time <= end_time
        /\ smp.in_pass
        /\ Slot(smp.current_time) \in DOMAIN posMemo'
        /\ ~posMemo'[Slot(smp.current_time)].raises
        /\ SampleElevation(posMemo'[Slot(smp.current_time)], Observer) < min_elevation_deg)
       => LET closed == smp'.passes[Len(smp'.passes)]
              last_recorded == smp.pass_times[Len(smp.pass_times)]
              before == smp.current_time - SampleIntervalS
          IN /\ closed.set_time = before
             /\ closed.set_time >= last_recorded
             /\ Slot(before) \in DOMAIN posMemo
             /\ closed.set_time = last_recorded <=> ~posMemo[Slot(before)].raises
             /\ closed.set_time > last_recorded => posMemo[Slot(closed.set_time)].raises]_vars

\* A pass has just been closed by a sample below the threshold, and the query at its
\* set time, one interval before the closing sample, had raised.
C19_Witness ==
    /\ pc = "sample"
    /\ ~smp.in_pass
    /\ Len(smp.passes) >= 1
    /\ smp.passes[Len(smp.passes)].set_time = smp.current_time - 2 * SampleIntervalS
    /\ posMemo[Slot(smp.passes[Len(smp.passes)].set_time)].raises
    /\ ~posMemo[Slot(smp.current_time - SampleIntervalS)].raises
    /\ smp.passes[Len(smp.passes)].peak_time < smp.passes[Len(smp.passes)].set_time

\* C20: the passes emitted by compute_passes_by_sampling are pairwise disjoint in
\* time: each record's rise time is not after its set time, and for consecutive
\* records p, q, p.set_time < q.rise_time; at every point of the scan at most one
\* pass is open: the samples recorded are those of one pass, which began at the
\* first of them, after the set time of every pass already closed.
C20_PassesDisjoint ==
    LET emitted == IF pc = "done" THEN passes ELSE smp.passes
    IN /\ \A i \in 1..Len(emitted) : emitted[i].rise_time <= emitted[i].set_time
       /\ \A i \in 1..(Len(emitted) - 1) : emitted[i].set_time < emitted[i + 1].rise_time
       /\ pc = "sample" =>
             /\ smp.in_pass <=> Len(smp.pass_times) > 0
             /\ smp.in_pass <=> smp.pass_start # NoTime
             /\ Len(smp.pass_times) = Len(smp.pass_elevations)
             /\ smp.in_pass =>
                   /\ smp.pass_start = smp.pass_times[1]
                   /\ \A i \in 1..(Len(smp.pass_times) - 1) :
                          smp.pass_times[i] < smp.pass_times[i + 1]
                   /\ \A i \in 1..Len(smp.passes) : smp.passes[i].set_time < smp.pass_start

\* The scan has closed one pass and is in a second one.
C20_Witness ==
    /\ pc = "sample"
    /\ Len(smp.passes) = 1
    /\ smp.in_pass
    /\ smp.passes[1].set_time + 2 * SampleIntervalS = smp.pass_start

\* C21: when get_next_pass ends the event search with StopIteration, compute_passes
\* returns exactly the passes accepted so far, in the order of their acceptance,
\* and compute_passes_by_sampling has not been entered; when the sampling scan that
\* followed an error of get_next_pass raises itself, compute_passes returns, without
\* raising, exactly the passes the event search had accepted before the error.
C21_PartialPassesKept ==
    LET AcceptedInOrder ==
            /\ Len(passes) = Cardinality(AcceptedEvents)
            /\ \A t \in AcceptedEvents :
                  passes[Cardinality({u \in AcceptedEvents : u <= t})]
                      = EventPass(evMemo[t], posMemo, Observer)
    IN pc = "done" =>
          /\ ended_by = "StopIteration" =>
                /\ AcceptedInOrder
                /\ fallback = "none"
                /\ smp = SamplingLocals(start_time)
          /\ fallback = "raised" =>
                /\ ended_by \in ErrorKinds
                /\ AcceptedInOrder
                /\ exc = "none"

\* get_next_pass failed after the search had accepted a pass, the scan had a pass
\* open when its step past datetime.max raised, and compute_passes has returned the
\* accepted pass.
C21_Witness ==
    /\ pc = "done"
    /\ ended_by \in ErrorKinds
    /\ fallback = "raised"
    /\ smp.in_pass
    /\ Cardinality(AcceptedEvents) >= 1
    /\ Len(passes) >= 1

====
